---- MODULE Spec2Model ----
(***************************************************************************)
(* aider_all.py: the batching driver.  Files are scanned, packed into      *)
(* groups under a token limit (split_files_by_token_limit), optionally     *)
(* given dependency files as read-only context, and handed one unit at a   *)
(* time to the aider command (execute_aider_command).                      *)
(*                                                                         *)
(* Four specifications:                                                    *)
(*   PackSpec  split_files_by_token_limit alone, one loop iteration per    *)
(*             step, over every cost assignment and limit in the bounds;   *)
(*   ParseSpec process_dependency_cruiser_output alone, one line per step; *)
(*   StreamSpec the aider process and the loop that reads its output;      *)
(*   Spec      main(): scan, process_files under the configured            *)
(*             SCAN_LOGIC, the dry-run report.                             *)
(***************************************************************************)
EXTENDS Integers, Sequences, FiniteSets, Bags, TLC

VARIABLES
    pc,                 \* position of the running function
    tokens,             \* file -> token count of its content, or Unreadable
    \* split_files_by_token_limit: parameters and locals
    files, token_limit, idx,
    file_groups, current_group, current_tokens, oversized_files,
    \* module-level configuration
    SCAN_LOGIC, DRY_RUN, LLM, EDIT_FORMAT, MANUALLY_ADDED_FILES,
    MODEL_TURN, EDIT_FORMAT_TURN,
    \* main / process_*: locals
    files_to_process, read_only_files, log_content, pos,
    dependencies,       \* process_*_dependency_cruiser: the latest call of
                        \* get_dependencies, its argument and what it returned
    \* process_dependency_cruiser_output: parameter and locals
    raw_output, line_no,
    sanitized_output,   \* the set `dependencies` of line 585, returned as this list
    \* execute_aider_command, lines 721-750: the aider process and its pipes
    process,            \* what the process has still to write, whether it was
                        \* started, whether it exited and with what code
    stdout, stderr,     \* the number of lines held by each pipe
    error_output,       \* the number of lines process.stderr.read() returned
    \* the outside world as the driver leaves it
    invocations,        \* the calls of execute_aider_command that got past building
                        \* the command: the editable files and what was done, in order
    last,               \* the latest of them in full
    runner_failed,      \* some aider process failed (non-zero exit or missing executable)
    log_file            \* aider_all_dry_run.log, a sequence of entries

packVars == <<files, token_limit, idx, file_groups, current_group,
              current_tokens, oversized_files>>
confVars == <<SCAN_LOGIC, DRY_RUN, LLM, EDIT_FORMAT, MANUALLY_ADDED_FILES>>
turnVars == <<MODEL_TURN, EDIT_FORMAT_TURN>>
mainVars == <<files_to_process, read_only_files, log_content, pos, dependencies>>
worldVars == <<invocations, last, runner_failed, log_file>>
parseVars == <<raw_output, line_no, sanitized_output>>
streamVars == <<process, stdout, stderr, error_output>>
vars == <<pc, tokens, packVars, confVars, turnVars, mainVars, worldVars, parseVars,
          streamVars>>

(***************************************************************************)
(* Bounds of the packer's inputs                                           *)
(***************************************************************************)
MaxLen == 4
MaxCost == 3
MaxLimit == 3

\* a file whose open/read/decode raises (line 363)
Unreadable == -1

(***************************************************************************)
(* Sequence helpers                                                        *)
(***************************************************************************)
Range(s) == {s[i] : i \in 1..Len(s)}

RECURSIVE Flatten(_)
Flatten(ss) == IF ss = <<>> THEN <<>> ELSE Head(ss) \o Flatten(Tail(ss))

RECURSIVE SeqBag(_)
SeqBag(s) == IF s = <<>> THEN EmptyBag ELSE SetToBag({Head(s)}) (+) SeqBag(Tail(s))

(***************************************************************************)
(* calculate_token_count (lines 336-366)                                   *)
(***************************************************************************)
\* mutant: a file that cannot be read counts as more than any limit
FileTokens_UnreadableIsHuge(file) ==
    IF tokens[file] = Unreadable THEN token_limit + 1 ELSE tokens[file]

\* one iteration of the for loop: the try body, or the except branch that
\* logs and adds nothing
FileTokens(file) == IF tokens[file] = Unreadable THEN 0 ELSE tokens[file]

RECURSIVE calculate_token_count(_)
calculate_token_count(fs) ==
    IF fs = <<>> THEN 0
    ELSE FileTokens(Head(fs)) + calculate_token_count(Tail(fs))

(***************************************************************************)
(* split_files_by_token_limit (lines 807-866)                              *)
(* The locals are carried in a record st.                                  *)
(***************************************************************************)
SplitStart ==
    [file_groups |-> <<>>, current_group |-> <<>>,
     current_tokens |-> 0, oversized_files |-> <<>>]

\* mutant: the comparison of line 837 made non-strict
ExceedsLimit_NonStrict(file_tokens, limit) == file_tokens >= limit

\* line 837
ExceedsLimit(file_tokens, limit) == file_tokens > limit

\* mutant: the comparison of line 847 made non-strict, a group that the file
\* would fill exactly is closed
OverflowsGroup_NonStrict(cur_tokens, file_tokens, limit) == cur_tokens + file_tokens >= limit

\* mutant: line 847 looks at the open group alone, not at the file to add
OverflowsGroup_IgnoresFile(cur_tokens, file_tokens, limit) == cur_tokens > limit

\* line 847
OverflowsGroup(cur_tokens, file_tokens, limit) == cur_tokens + file_tokens > limit

\* mutant: line 846 (current_tokens = 0) left out
OversizedBranch_NoReset(st, file) ==
    IF st.current_group # <<>>
    THEN [st EXCEPT !.oversized_files = Append(@, file),
                    !.file_groups = Append(@, st.current_group),
                    !.current_group = <<>>]
    ELSE [st EXCEPT !.oversized_files = Append(@, file)]

\* lines 842-846
OversizedBranch(st, file) ==
    IF st.current_group # <<>>
    THEN [st EXCEPT !.oversized_files = Append(@, file),
                    !.file_groups = Append(@, st.current_group),
                    !.current_group = <<>>,
                    !.current_tokens = 0]
    ELSE [st EXCEPT !.oversized_files = Append(@, file)]

\* mutant: line 852 adds to current_tokens, the count of the flushed group
\* is carried into the new one
NewGroupBranch_CarriesTokens(st, file, file_tokens) ==
    [st EXCEPT !.file_groups = IF st.current_group # <<>>
                               THEN Append(@, st.current_group) ELSE @,
               !.current_group = <<file>>,
               !.current_tokens = @ + file_tokens]

\* mutant: lines 849-850 left out, the open group is overwritten unflushed
NewGroupBranch_NoFlush(st, file, file_tokens) ==
    [st EXCEPT !.current_group = <<file>>,
               !.current_tokens = file_tokens]

\* lines 849-852
NewGroupBranch(st, file, file_tokens) ==
    [st EXCEPT !.file_groups = IF st.current_group # <<>>
                               THEN Append(@, st.current_group) ELSE @,
               !.current_group = <<file>>,
               !.current_tokens = file_tokens]

\* mutant: line 855 puts the file at the front of the open group
AppendBranch_Prepends(st, file, file_tokens) ==
    [st EXCEPT !.current_group = <<file>> \o @,
               !.current_tokens = @ + file_tokens]

\* lines 855-856
AppendBranch(st, file, file_tokens) ==
    [st EXCEPT !.current_group = Append(@, file),
               !.current_tokens = @ + file_tokens]

\* lines 836-856: the loop body
LoopBody(st, file, limit) ==
    LET file_tokens == calculate_token_count(<<file>>) IN
    IF ExceedsLimit(file_tokens, limit) THEN OversizedBranch(st, file)
    ELSE IF OverflowsGroup(st.current_tokens, file_tokens, limit)
         THEN NewGroupBranch(st, file, file_tokens)
         ELSE AppendBranch(st, file, file_tokens)

\* lines 858-859
FinalFlush(st) ==
    IF st.current_group # <<>>
    THEN [st EXCEPT !.file_groups = Append(@, st.current_group)]
    ELSE st

\* mutant: line 862 promotes whenever anything is oversized
PromotionApplies_AnyOversized(groups, oversized) == groups = <<>> /\ Len(oversized) >= 1

\* line 862
PromotionApplies(groups, oversized) == groups = <<>> /\ Len(oversized) = 1

\* lines 862-864
Promote(st) ==
    IF PromotionApplies(st.file_groups, st.oversized_files)
    THEN [st EXCEPT !.file_groups = Append(@, st.oversized_files),
                    !.oversized_files = <<>>]
    ELSE st

RECURSIVE SplitLoop(_, _, _)
SplitLoop(st, fs, limit) ==
    IF fs = <<>> THEN st
    ELSE SplitLoop(LoopBody(st, Head(fs), limit), Tail(fs), limit)

\* the whole function: returns <<file_groups, oversized_files>>
split_files_by_token_limit(fs, limit) ==
    LET st == Promote(FinalFlush(SplitLoop(SplitStart, fs, limit)))
    IN <<st.file_groups, st.oversized_files>>

PackState ==
    [file_groups |-> file_groups, current_group |-> current_group,
     current_tokens |-> current_tokens, oversized_files |-> oversized_files]

SetPackState(st) ==
    /\ file_groups' = st.file_groups
    /\ current_group' = st.current_group
    /\ current_tokens' = st.current_tokens
    /\ oversized_files' = st.oversized_files

\* one iteration of the for loop of line 835
SplitIterate ==
    /\ pc = "split_loop"
    /\ idx <= Len(files)
    /\ SetPackState(LoopBody(PackState, files[idx], token_limit))
    /\ idx' = idx + 1
    /\ UNCHANGED <<pc, tokens, files, token_limit, confVars, turnVars, mainVars, worldVars,
                   parseVars, streamVars>>

\* lines 858-866: final flush, promotion, return
SplitReturn ==
    /\ pc = "split_loop"
    /\ idx > Len(files)
    /\ SetPackState(Promote(FinalFlush(PackState)))
    /\ pc' = "split_returned"
    /\ UNCHANGED <<tokens, files, token_limit, idx, confVars, turnVars, mainVars, worldVars,
                   parseVars, streamVars>>

(***************************************************************************)
(* Module-level configuration (lines 12-302) and the turn counters         *)
(***************************************************************************)
TOKEN_LIMIT == 4096

MODELS == <<"gpt-4o-2024-08-06", "claude-3-5-sonnet-20240620", "chatgpt-4o-latest">>

\* lines 176-193: the counters are threading.local() objects whose attribute
\* `value` initialize_turns sets to 0
initialize_turns == [type |-> "local", value |-> 0]

\* get_dependencies was not called yet
NoDependencies == [of |-> <<>>, oracle |-> "none", result |-> {}, calls |-> 0]

\* no aider process was started
NoProcess == [script |-> <<>>, started |-> FALSE, exited |-> FALSE, returncode |-> 0]

StreamIdle ==
    /\ process = NoProcess
    /\ stdout = 0
    /\ stderr = 0
    /\ error_output = 0

\* process_dependency_cruiser_output is not running
ParserIdle ==
    /\ raw_output = <<>>
    /\ line_no = 0
    /\ sanitized_output = {}

\* values of the driver's variables while only the packer runs
DriverIdle ==
    /\ SCAN_LOGIC = "standard"
    /\ DRY_RUN = FALSE
    /\ LLM = "default"
    /\ EDIT_FORMAT = "diff"
    /\ MANUALLY_ADDED_FILES = <<>>
    /\ MODEL_TURN = initialize_turns
    /\ EDIT_FORMAT_TURN = initialize_turns
    /\ files_to_process = <<>>
    /\ read_only_files = <<>>
    /\ log_content = <<>>
    /\ pos = 0
    /\ dependencies = NoDependencies
    /\ invocations = <<>>
    /\ last = [kind |-> "none"]
    /\ runner_failed = FALSE
    /\ log_file = <<>>

(***************************************************************************)
(* PackSpec: split_files_by_token_limit on every input within the bounds,  *)
(* and on the two scenarios of the packer's description                    *)
(***************************************************************************)
Scenarios ==
    { [costs |-> <<40, 50, 30, 200>>, limit |-> 100],
      [costs |-> <<500>>, limit |-> 100] }

PackEntry ==
    /\ pc = "split_loop"
    /\ idx = 1
    /\ file_groups = <<>>
    /\ current_group = <<>>
    /\ current_tokens = 0
    /\ oversized_files = <<>>

PackInit ==
    /\ \/ \E n \in 0..MaxLen :
            /\ files = [i \in 1..n |-> i]
            /\ tokens \in [1..n -> Unreadable..MaxCost]
            /\ token_limit \in 0..MaxLimit
       \/ \E sc \in Scenarios :
            /\ files = [i \in 1..Len(sc.costs) |-> i]
            /\ tokens = sc.costs
            /\ token_limit = sc.limit
    /\ PackEntry
    /\ DriverIdle
    /\ ParserIdle
    /\ StreamIdle

PackNext == SplitIterate \/ SplitReturn

PackSpec == PackInit /\ [][PackNext]_vars

(***************************************************************************)
(* Properties of split_files_by_token_limit, checked under PackSpec        *)
(***************************************************************************)
Returned == pc = "split_returned"

RECURSIVE GroupCost(_)
GroupCost(g) == IF g = <<>> THEN 0 ELSE FileTokens(Head(g)) + GroupCost(Tail(g))

\* the input is one file, and that file is over the limit: the only input on
\* which the promotion of lines 862-864 can act
SoleOversizedInput == Len(files) = 1 /\ FileTokens(files[1]) > token_limit

AllOversizedInput == \A i \in 1..Len(files) : FileTokens(files[i]) > token_limit

\* C1: partition totality.  The files of the returned groups together with
\* the returned oversized list are, with multiplicity, exactly the input files.
C1_PartitionTotality ==
    Returned => SeqBag(Flatten(file_groups) \o oversized_files) = SeqBag(files)

C1_Witness ==
    /\ Returned
    /\ Len(file_groups) >= 2
    /\ oversized_files # <<>>
    /\ Len(files) = MaxLen

\* C2: capacity respect.  Every returned group other than the promoted
\* singleton has a summed cost of at most the limit.
C2_CapacityRespect ==
    Returned =>
        \A k \in 1..Len(file_groups) :
            \/ GroupCost(file_groups[k]) <= token_limit
            \/ (SoleOversizedInput /\ file_groups = <<files>>)

C2_Witness ==
    /\ Returned
    /\ Len(file_groups) >= 2
    /\ \E k \in 1..Len(file_groups) :
          /\ Len(file_groups[k]) >= 2
          /\ GroupCost(file_groups[k]) = token_limit
          /\ token_limit > 0

\* C3: oversized correctness.  A file is in the oversized list iff its own
\* cost exceeds the limit, except for the single oversized input file, which
\* is returned as the only group with the oversized list empty.
C3_OversizedCorrect ==
    Returned =>
        IF SoleOversizedInput
        THEN file_groups = <<files>> /\ oversized_files = <<>>
        ELSE \A i \in 1..Len(files) :
                (files[i] \in Range(oversized_files))
                    <=> (FileTokens(files[i]) > token_limit)

C3_Witness ==
    /\ Returned
    /\ ~SoleOversizedInput
    /\ oversized_files # <<>>
    /\ file_groups # <<>>
    /\ \E i \in 1..Len(files) : FileTokens(files[i]) = token_limit

\* C4 as stated: a non-empty input always yields at least one group.
C4_AlwaysSomeGroup ==
    (Returned /\ files # <<>>) => file_groups # <<>>

\* C4 amended: a non-empty input yields no group exactly when it holds two or
\* more files and every one of them is over the limit.
C4_SomeGroupUnlessAllOversized ==
    (Returned /\ files # <<>>) =>
        (file_groups = <<>> <=> (Len(files) >= 2 /\ AllOversizedInput))

C4_Witness ==
    /\ Returned
    /\ SoleOversizedInput
    /\ file_groups = <<files>>
    /\ oversized_files = <<>>

(***************************************************************************)
(* The streaming algorithm the packer is described by: oversized file ->   *)
(* flush and add to oversized; else flush and start a new group when       *)
(* current_cost + c > capacity and the group is non-empty; else append;    *)
(* then the final flush and the sole-oversized promotion.                  *)
(***************************************************************************)
RECURSIVE StreamingPass(_, _, _, _, _, _)
StreamingPass(fs, capacity, groups, group, cost, oversized) ==
    IF fs = <<>>
    THEN [groups |-> IF group # <<>> THEN Append(groups, group) ELSE groups,
          oversized |-> oversized]
    ELSE LET f == Head(fs)
             c == IF tokens[f] = Unreadable THEN 0 ELSE tokens[f]
             flushed == IF group # <<>> THEN Append(groups, group) ELSE groups
         IN IF c > capacity
            THEN StreamingPass(Tail(fs), capacity, flushed, <<>>, 0, Append(oversized, f))
            ELSE IF cost + c > capacity /\ group # <<>>
                 THEN StreamingPass(Tail(fs), capacity, flushed, <<f>>, c, oversized)
                 ELSE StreamingPass(Tail(fs), capacity, groups, Append(group, f),
                                    cost + c, oversized)

StreamingPack(fs, capacity) ==
    LET r == StreamingPass(fs, capacity, <<>>, <<>>, 0, <<>>)
    IN IF r.groups = <<>> /\ Len(r.oversized) = 1
       THEN <<(<<r.oversized>>), <<>>>>
       ELSE <<r.groups, r.oversized>>

\* C10: the packer returns exactly what the streaming algorithm returns, the
\* call as a whole returns what the loop stepped through returns, and limit
\* 100 with costs 40, 50, 30, 200 gives groups [[F1, F2], [F3]], oversized [F4].
C10_MatchesStreamingAlgorithm ==
    Returned =>
        /\ <<file_groups, oversized_files>> = StreamingPack(files, token_limit)
        /\ split_files_by_token_limit(files, token_limit) = <<file_groups, oversized_files>>
        /\ (tokens = <<40, 50, 30, 200>> /\ token_limit = 100) =>
              /\ file_groups = <<(<<1, 2>>), (<<3>>)>>
              /\ oversized_files = <<4>>

C10_Witness ==
    /\ Returned
    /\ tokens = <<40, 50, 30, 200>>
    /\ token_limit = 100
    /\ file_groups = <<(<<1, 2>>), (<<3>>)>>
    /\ oversized_files = <<4>>

\* the files of the list fs that are over the limit / within it, in the order of fs
OverLimitOf(fs) == SelectSeq(fs, LAMBDA f : FileTokens(f) > token_limit)
WithinLimitOf(fs) == SelectSeq(fs, LAMBDA f : FileTokens(f) <= token_limit)

\* C11: order preservation.  No returned group is empty, and the groups
\* concatenated in the order returned are the input list with the oversized
\* files removed (the whole input when the single oversized file was
\* promoted); the oversized list is the oversized files in input order.  So
\* files keep their input order within each group and within the oversized
\* list, and the groups are ordered by the position of their first file.
C11_OrderPreserved ==
    Returned =>
        /\ \A k \in 1..Len(file_groups) : file_groups[k] # <<>>
        /\ IF SoleOversizedInput
           THEN Flatten(file_groups) = files /\ oversized_files = <<>>
           ELSE /\ Flatten(file_groups) = WithinLimitOf(files)
                /\ oversized_files = OverLimitOf(files)

\* two groups, one of them of two files, and an oversized file between them
C11_Witness ==
    /\ Returned
    /\ Len(file_groups) >= 2
    /\ \E k \in 1..Len(file_groups) : Len(file_groups[k]) >= 2
    /\ \E i \in 2..(Len(files) - 1) : FileTokens(files[i]) > token_limit
    /\ FileTokens(files[1]) <= token_limit
    /\ FileTokens(files[Len(files)]) <= token_limit

InSplitLoop == pc = "split_loop"

\* C20: the loop invariant of the packer.  Before the first file and after
\* each file, current_tokens is the summed cost of the files of
\* current_group and is at most the limit, an empty current_group has
\* current_tokens 0, and no group of file_groups is empty.
C20_LoopInvariant ==
    InSplitLoop =>
        /\ current_tokens = GroupCost(current_group)
        /\ current_tokens <= token_limit
        /\ current_group = <<>> => current_tokens = 0
        /\ \A k \in 1..Len(file_groups) : file_groups[k] # <<>>

\* after the last file: a group flushed by an oversized file, and an open
\* group of two files that fills the limit
C20_Witness ==
    /\ InSplitLoop
    /\ idx > Len(files)
    /\ file_groups # <<>>
    /\ oversized_files # <<>>
    /\ Len(current_group) >= 2
    /\ current_tokens = token_limit
    /\ token_limit > 0

IsUnreadable(f) == tokens[f] = Unreadable

Readable(fs) == SelectSeq(fs, LAMBDA f : ~IsUnreadable(f))

RECURSIVE SumOfTokens(_)
SumOfTokens(fs) == IF fs = <<>> THEN 0 ELSE tokens[Head(fs)] + SumOfTokens(Tail(fs))

\* the places <<k, j>> of file f in the returned groups
PlacesInGroups(f) ==
    {p \in (1..Len(file_groups)) \X (1..Len(files)) :
        p[2] <= Len(file_groups[p[1]]) /\ file_groups[p[1]][p[2]] = f}

\* C17: a file that cannot be read adds 0 to calculate_token_count while the
\* other files of the call are counted in full; the packer never returns it
\* as oversized and places it in exactly one group, and every file after it
\* is placed too, with the groups within the limit as for any other input.
C17_UnreadableFileCostsNothing ==
    Returned =>
        /\ calculate_token_count(files) = SumOfTokens(Readable(files))
        /\ \A i \in 1..Len(files) :
              IsUnreadable(files[i]) =>
                /\ calculate_token_count(<<files[i]>>) = 0
                /\ files[i] \notin Range(oversized_files)
                /\ Cardinality(PlacesInGroups(files[i])) = 1
                /\ \A j \in (i + 1)..Len(files) :
                      IF tokens[files[j]] > token_limit /\ ~SoleOversizedInput
                      THEN files[j] \in Range(oversized_files)
                      ELSE Cardinality(PlacesInGroups(files[j])) = 1
                /\ \A k \in 1..Len(file_groups) :
                      files[i] \in Range(file_groups[k]) =>
                          SumOfTokens(Readable(file_groups[k])) <= token_limit

\* an unreadable file in a group with a readable file of non-zero cost, an
\* oversized file and a readable file after it
C17_Witness ==
    /\ Returned
    /\ \E i \in 1..(Len(files) - 2) :
          /\ IsUnreadable(files[i])
          /\ \E k \in 1..Len(file_groups) :
                /\ files[i] \in Range(file_groups[k])
                /\ SumOfTokens(Readable(file_groups[k])) > 0
          /\ \E j \in (i + 1)..Len(files) : files[j] \in Range(oversized_files)
          /\ ~IsUnreadable(files[Len(files)])
          /\ files[Len(files)] \notin Range(oversized_files)

(***************************************************************************)
(* The files of the project.  File 0 is README.md, the entry of            *)
(* MANUALLY_ADDED_FILES in the source; files 1..NumFiles are sources with   *)
(* a processed extension, the odd ones .js, the even ones .scss.           *)
(***************************************************************************)
NumFiles == 2

AllFiles == 0..NumFiles

Ext(f) == IF f = 0 THEN ".md" ELSE IF f % 2 = 1 THEN ".js" ELSE ".scss"

\* line 49
PROCESSED_EXTENSIONS == {".js", ".vue", ".scss"}

\* line 470
valid_extensions == {".js", ".ts", ".jsx", ".vue"}

\* the lists a set becomes under list(set(...)): any order, no duplicates
Orderings(S) ==
    {s \in [1..Cardinality(S) -> S] : \A i, j \in 1..Cardinality(S) : s[i] = s[j] => i = j}

\* The token counts main() is run on.  A file of half the limit packs two to a
\* group, a file of more than the limit is oversized.
HalfLimit == TOKEN_LIMIT \div 2
OverLimit == TOKEN_LIMIT + 1

CostProfiles ==
    { [f \in AllFiles |-> HalfLimit],
      [f \in AllFiles |-> OverLimit],
      [f \in AllFiles |-> IF f % 2 = 0 THEN HalfLimit ELSE OverLimit] }

(***************************************************************************)
(* get_files_to_process (lines 369-415).  disk: the files that exist and    *)
(* match no IGNORE_FILES pattern.  Returns the possible result lists.       *)
(***************************************************************************)
get_files_to_process(disk) ==
    LET scanned == {f \in disk : Ext(f) \in PROCESSED_EXTENSIONS}
        manual  == {f \in Range(MANUALLY_ADDED_FILES) : f \in disk}
    IN Orderings(scanned \cup manual)

(***************************************************************************)
(* Dependency discovery (lines 418-624).  A line of dependency-cruiser's    *)
(* output is a sequence of tokens: a file name, Blank (white space), Arrow  *)
(* (the arrow glyph with a space on either side, the first string of line   *)
(* 596) or Mojibake (its mis-decoded form, the second string of line 596).  *)
(* An endpoint is a sequence of tokens too; <<f>> is the name of file f.    *)
(***************************************************************************)
Blank == -2
Arrow == -3
Mojibake == -4

\* `sub in line` for a one-token sub
Contains(line, tok) == \E i \in 1..Len(line) : line[i] = tok

\* str.strip
RECURSIVE lstrip(_)
lstrip(s) == IF s # <<>> /\ Head(s) = Blank THEN lstrip(Tail(s)) ELSE s

RECURSIVE rstrip(_)
rstrip(s) ==
    IF s # <<>> /\ s[Len(s)] = Blank THEN rstrip(SubSeq(s, 1, Len(s) - 1)) ELSE s

strip(s) == rstrip(lstrip(s))

\* line_clean.rsplit(arrow, 1): the parts around the last arrow, or the
\* whole line as the only part
rsplit(line, arrow) ==
    IF Contains(line, arrow)
    THEN LET i == CHOOSE k \in 1..Len(line) :
                     line[k] = arrow /\ \A j \in (k + 1)..Len(line) : line[j] # arrow
         IN <<SubSeq(line, 1, i - 1), SubSeq(line, i + 1, Len(line))>>
    ELSE <<line>>

\* mutant: line 597 always takes the arrow glyph as the separator
ArrowOf_GlyphOnly(line) == Arrow

\* line 597: in a line that holds both forms the mis-decoded one separates
ArrowOf(line) == IF Contains(line, Mojibake) THEN Mojibake ELSE Arrow

\* lines 596-613, one line: the endpoints it contributes.  A line from text
\* mode decoding holds no lone surrogate, line 591 leaves it as it is.
LineEndpoints(line) ==
    IF Contains(line, Arrow) \/ Contains(line, Mojibake)
    THEN LET parts == rsplit(line, ArrowOf(line)) IN
         IF Len(parts) # 2 THEN {}   \* unpacking raises ValueError, caught at line 612
         ELSE LET source == strip(parts[1])
                  target == strip(parts[2])
              IN IF source # <<>> /\ target # <<>>
                 THEN {source, target}
                 ELSE {}   \* ValueError of line 605, caught at line 612
    ELSE {}                \* ValueError of line 609, caught at line 612

\* lines 581-624
process_dependency_cruiser_output(raw) ==
    IF raw = <<>> THEN {}
    ELSE UNION {LineEndpoints(raw[i]) : i \in 1..Len(raw)}

\* one iteration of the for loop of line 590
ParseLine ==
    /\ pc = "parse_loop"
    /\ line_no <= Len(raw_output)
    /\ sanitized_output' = sanitized_output \cup LineEndpoints(raw_output[line_no])
    /\ line_no' = line_no + 1
    /\ UNCHANGED <<pc, tokens, packVars, confVars, turnVars, mainVars, worldVars, raw_output, streamVars>>

\* lines 581-583 and 615-624
ParseReturn ==
    /\ pc = "parse_loop"
    /\ line_no > Len(raw_output)
    /\ pc' = "parse_returned"
    /\ UNCHANGED <<tokens, packVars, confVars, turnVars, mainVars, worldVars, parseVars, streamVars>>

(***************************************************************************)
(* ParseSpec: process_dependency_cruiser_output on every line of at most   *)
(* MaxTokens tokens over two file names, by itself, before an edge line and *)
(* after an edge line                                                       *)
(***************************************************************************)
MaxTokens == 3

ParseTokens == {1, 2, Blank, Arrow, Mojibake}

ParseLines == UNION {[1..n -> ParseTokens] : n \in 0..MaxTokens}

\* the lines dependency-cruiser prints for an edge, decoded well or not
EdgeLines ==
    {<<1, Arrow, 2>>, <<2, Arrow, 1>>, <<1, Mojibake, 2>>, <<2, Mojibake, 1>>}

\* no line, one line, two lines of which one is an edge line
ParseOutputs ==
    {<<>>} \cup {<<l>> : l \in ParseLines}
    \cup {<<l, m>> : l \in ParseLines, m \in EdgeLines}
    \cup {<<m, l>> : l \in ParseLines, m \in EdgeLines}

ParseInit ==
    /\ pc = "parse_loop"
    /\ raw_output \in ParseOutputs
    /\ line_no = 1
    /\ sanitized_output = {}
    /\ tokens = <<>>
    /\ files = <<>> /\ token_limit = TOKEN_LIMIT /\ idx = 0
    /\ file_groups = <<>> /\ current_group = <<>> /\ current_tokens = 0
    /\ oversized_files = <<>>
    /\ DriverIdle
    /\ StreamIdle

ParseNext == ParseLine \/ ParseReturn

ParseSpec == ParseInit /\ [][ParseNext]_vars

ParseReturned == pc = "parse_returned"

ArrowCount(line) == Cardinality({i \in 1..Len(line) : line[i] \in {Arrow, Mojibake}})

\* s without the white space at its ends
Trimmed(s) ==
    LET inked == {i \in 1..Len(s) : s[i] # Blank}
    IN IF inked = {} THEN <<>>
       ELSE SubSeq(s, CHOOSE i \in inked : \A j \in inked : i <= j,
                      CHOOSE i \in inked : \A j \in inked : i >= j)

\* the endpoints of a line with one arrow, of either form, when there is
\* text on both sides of it; nothing for any other line with at most one arrow
EdgeEndpoints(line) ==
    IF ArrowCount(line) = 1
    THEN LET k == CHOOSE i \in 1..Len(line) : line[i] \in {Arrow, Mojibake}
             source == Trimmed(SubSeq(line, 1, k - 1))
             target == Trimmed(SubSeq(line, k + 1, Len(line)))
         IN IF source # <<>> /\ target # <<>> THEN {source, target} ELSE {}
    ELSE {}

\* C15: dependency closure symmetry.  The returned set is the union of what
\* each line contributes by itself, so no line keeps a later one from being
\* processed; a line with one arrow, in either of its two forms, contributes
\* its source and its target when both are non-empty, and a line with no
\* arrow or with an empty endpoint contributes nothing.
C15_BothEndpointsOfEveryEdge ==
    ParseReturned =>
        /\ sanitized_output = process_dependency_cruiser_output(raw_output)
        /\ sanitized_output =
              UNION {process_dependency_cruiser_output(<<raw_output[i]>>) :
                        i \in 1..Len(raw_output)}
        /\ (\A i \in 1..Len(raw_output) : ArrowCount(raw_output[i]) <= 1) =>
              sanitized_output = UNION {EdgeEndpoints(raw_output[i]) : i \in 1..Len(raw_output)}

\* a line with an arrow and no target, then an edge written with the
\* mis-decoded arrow
C15_Witness ==
    /\ ParseReturned
    /\ Len(raw_output) = 2
    /\ ArrowCount(raw_output[1]) = 1
    /\ EdgeEndpoints(raw_output[1]) = {}
    /\ raw_output[2] = <<1, Mojibake, 2>>
    /\ sanitized_output = {<<1>>, <<2>>}

\* lines 453-501
filter_files_for_dependency_cruiser(fs) ==
    SelectSeq(fs, LAMBDA f : Ext(f) \in valid_extensions)

\* what the tool may print for the files it is given: a line `source arrow
\* target` with the arrow in either form or with white space in its place,
\* and either name possibly missing
OracleLines(fs) ==
    {<<source, arrow, target>> :
        source \in Range(fs) \cup {Blank},
        arrow \in {Arrow, Mojibake, Blank},
        target \in AllFiles \cup {Blank}}

\* the files of the project a set of endpoints names
FilesNamed(endpoints) == {f \in AllFiles : <<f>> \in endpoints}

\* nothing, or one line
OracleOutputs(fs) ==
    {<<>>} \cup {<<line>> : line \in OracleLines(fs)}

\* lines 504-558: the possible results, each with how the tool ended: it ran
\* to the end (only then log_dependency_cruiser_results is called), it exited
\* non-zero (CalledProcessError, line 547), or npx was not found
\* (FileNotFoundError, line 553)
RunResults(fs) ==
    {[ran |-> FALSE, oracle |-> "exit_nonzero", dependencies |-> {}],
     [ran |-> FALSE, oracle |-> "not_found", dependencies |-> {}]}
    \cup {[ran |-> TRUE, oracle |-> "ran",
           dependencies |-> FilesNamed(process_dependency_cruiser_output(out))] :
            out \in OracleOutputs(fs)}

\* RunResults depends on the set of the files given only: tabulated by that
\* set, as pairs <<given, results>>
RunResultsOf ==
    {<<given, RunResults(CHOOSE fs \in Orderings(given) : TRUE)>> : given \in SUBSET AllFiles}

run_dependency_cruiser(fs) == (CHOOSE entry \in RunResultsOf : entry[1] = Range(fs))[2]

\* lines 443-450
get_dependencies(fs) ==
    IF fs = <<>> THEN {[ran |-> FALSE, oracle |-> "not_run", dependencies |-> {}]}
    ELSE LET filtered_files == filter_files_for_dependency_cruiser(fs)
         IN IF filtered_files = <<>>
            THEN {[ran |-> FALSE, oracle |-> "not_run", dependencies |-> {}]}
            ELSE run_dependency_cruiser(filtered_files)

\* lines 644-662: appended to the report in a dry run
log_dependency_cruiser_results(log, dep) ==
    IF DRY_RUN /\ dep.ran
    THEN Append(log, [kind |-> "dependency_cruiser", sanitized |-> dep.dependencies])
    ELSE log

(***************************************************************************)
(* execute_aider_command (lines 665-750)                                   *)
(***************************************************************************)
\* lines 682-688: the possible choices; raised is the TypeError of applying
\* % to the threading.local object MODEL_TURN
SelectModel ==
    IF LLM = "random"
    THEN {[raised |-> FALSE, model |-> MODELS[k], turn |-> MODEL_TURN] : k \in 1..Len(MODELS)}
    ELSE IF LLM = "turn-based"
    THEN IF MODEL_TURN.type = "int"
         THEN {[raised |-> FALSE,
                model |-> MODELS[(MODEL_TURN.value % Len(MODELS)) + 1],
                turn |-> [MODEL_TURN EXCEPT !.value = @ + 1]]}
         ELSE {[raised |-> TRUE, model |-> "None", turn |-> MODEL_TURN]}
    ELSE {[raised |-> FALSE, model |-> "None", turn |-> MODEL_TURN]}

\* lines 690-696
SelectEditFormat ==
    IF EDIT_FORMAT = "random"
    THEN {[raised |-> FALSE, edit_format |-> e, turn |-> EDIT_FORMAT_TURN] : e \in {"diff", "udiff"}}
    ELSE IF EDIT_FORMAT = "turn-based"
    THEN IF EDIT_FORMAT_TURN.type = "int"
         THEN {[raised |-> FALSE,
                edit_format |-> IF EDIT_FORMAT_TURN.value % 2 = 0 THEN "diff" ELSE "udiff",
                turn |-> [EDIT_FORMAT_TURN EXCEPT !.value = @ + 1]]}
         ELSE {[raised |-> TRUE, edit_format |-> "None", turn |-> EDIT_FORMAT_TURN]}
    ELSE {[raised |-> FALSE, edit_format |-> EDIT_FORMAT, turn |-> EDIT_FORMAT_TURN]}

\* mutant: the loop of lines 704-705 left out, no --read argument is passed
BuildCommand_NoReadArguments(fs, read_only, m, e) ==
    [kind |-> "call",
     model |-> m.model,
     edit_format |-> e.edit_format,
     read |-> {},
     read_only_files |-> read_only,
     files |-> fs]

\* lines 698-707: the command; the order of the --read arguments is not kept
BuildCommand(fs, read_only, m, e) ==
    [kind |-> "call",
     model |-> m.model,
     edit_format |-> e.edit_format,
     read |-> Range(MANUALLY_ADDED_FILES) \cup read_only,
     read_only_files |-> read_only,
     files |-> fs]

\* lines 721-750: how the attempt to run the command can end.  Each of them
\* is handled inside the function: the exit code is logged, and a missing
\* executable (Popen raising) is caught at line 749
RunnerOutcomes == {"exit_zero", "exit_nonzero", "not_found"}

RunnerFailed(outcome) == outcome # "exit_zero"

\* lines 781-804
log_aider_command(log, cmd) ==
    Append(log, [kind |-> "aider_command", files |-> cmd.files,
                 read_only_files |-> cmd.read_only_files,
                 model |-> cmd.model, edit_format |-> cmd.edit_format])

\* mutant: a failed command is raised to the caller
ContinuesAfter_StopsOnFailure(outcome) == outcome = "exit_zero"

\* lines 739-750: whatever the outcome, it is logged and the function
\* returns; nothing is re-raised to the caller's loop
ContinuesAfter(outcome) == TRUE

\* One call execute_aider_command(fs, read_only, ...) made by a loop that
\* goes to <<next_pc, next_pos>> when the call returns.  log is the report as
\* the caller's dependency discovery left it.  An exception leaving the
\* function leaves the loop and process_files too, and is caught by main at
\* line 1087.
execute_aider_command(fs, read_only, log, next_pc, next_pos) ==
    \E m \in SelectModel :
      IF m.raised
      THEN /\ pc' = "aborted"
           /\ log_file' = log
           /\ UNCHANGED <<turnVars, pos, invocations, last, runner_failed>>
      ELSE
        \E e \in SelectEditFormat :
          /\ MODEL_TURN' = m.turn
          /\ IF e.raised
             THEN /\ pc' = "aborted"
                  /\ log_file' = log
                  /\ UNCHANGED <<EDIT_FORMAT_TURN, pos, invocations, last, runner_failed>>
             ELSE
               LET cmd == BuildCommand(fs, read_only, m, e) IN
               /\ EDIT_FORMAT_TURN' = e.turn
               /\ IF DRY_RUN
                  THEN /\ log_file' = log_aider_command(log, cmd)
                       /\ invocations' = Append(invocations, [files |-> fs, how |-> "logged"])
                       /\ last' = [cmd EXCEPT !.kind = "logged"]
                       /\ UNCHANGED runner_failed
                       /\ pc' = next_pc
                       /\ pos' = next_pos
                  ELSE \E outcome \in RunnerOutcomes :
                       /\ log_file' = log
                       /\ invocations' = Append(invocations, [files |-> fs, how |-> "run"])
                       /\ last' = [cmd EXCEPT !.kind = outcome]
                       /\ runner_failed' = (runner_failed \/ RunnerFailed(outcome))
                       /\ IF ContinuesAfter(outcome)
                          THEN pc' = next_pc /\ pos' = next_pos
                          ELSE pc' = "aborted" /\ pos' = pos

(***************************************************************************)
(* StreamSpec: one run of lines 721-750 step by step, the driver and the   *)
(* aider process side by side.  The process writes a finite script of      *)
(* lines, each to its standard output or to its standard error, in the     *)
(* order of the script, and then exits; a pipe holds at most PipeCapacity   *)
(* lines, and a write to a full pipe waits.  Spec takes the same lines as   *)
(* one step that returns.                                                  *)
(***************************************************************************)
PipeCapacity == 2
MaxWrites == 4

Scripts == UNION {[1..n -> {"stdout", "stderr"}] : n \in 0..MaxWrites}

\* lines 723-730: the process is started with both pipes empty, or Popen
\* raises (no aider executable), which line 749 catches
Popen ==
    /\ pc = "popen"
    /\ \/ /\ process' = [process EXCEPT !.started = TRUE]
          /\ pc' = "readline"
       \/ /\ pc' = "stream_returned"
          /\ UNCHANGED process
    /\ UNCHANGED <<tokens, packVars, confVars, turnVars, mainVars, worldVars, parseVars,
                   stdout, stderr, error_output>>

ProcessRuns == process.started /\ ~process.exited

\* the process writes the next line of its script, if the pipe has room
ProcessWrite ==
    /\ ProcessRuns
    /\ process.script # <<>>
    /\ IF Head(process.script) = "stdout"
       THEN stdout < PipeCapacity /\ stdout' = stdout + 1 /\ UNCHANGED stderr
       ELSE stderr < PipeCapacity /\ stderr' = stderr + 1 /\ UNCHANGED stdout
    /\ process' = [process EXCEPT !.script = Tail(@)]
    /\ UNCHANGED <<pc, tokens, packVars, confVars, turnVars, mainVars, worldVars, parseVars,
                   error_output>>

\* the process has written everything and exits, with any code
ProcessExit ==
    /\ ProcessRuns
    /\ process.script = <<>>
    /\ \E code \in {0, 1} :
          process' = [process EXCEPT !.exited = TRUE, !.returncode = code]
    /\ UNCHANGED <<pc, tokens, packVars, confVars, turnVars, mainVars, worldVars, parseVars,
                   stdout, stderr, error_output>>

\* lines 733-737: readline returns a line when the pipe holds one, returns
\* "" when the pipe is empty and its write end is closed (the process
\* exited), and waits otherwise; on "" with poll() not None the loop is left
readline ==
    /\ pc = "readline"
    /\ IF stdout > 0
       THEN /\ stdout' = stdout - 1
            /\ UNCHANGED pc
       ELSE /\ process.exited
            /\ pc' = "return_code"
            /\ UNCHANGED stdout
    /\ UNCHANGED <<tokens, packVars, confVars, turnVars, mainVars, worldVars, parseVars,
                   process, stderr, error_output>>

\* lines 739-748: standard error is read only now, and only after a
\* non-zero exit
return_code ==
    /\ pc = "return_code"
    /\ IF process.returncode = 0
       THEN UNCHANGED <<stderr, error_output>>
       ELSE error_output' = stderr /\ stderr' = 0
    /\ pc' = "stream_returned"
    /\ UNCHANGED <<tokens, packVars, confVars, turnVars, mainVars, worldVars, parseVars,
                   process, stdout>>

StreamInit ==
    /\ pc = "popen"
    /\ \E script \in Scripts : process = [NoProcess EXCEPT !.script = script]
    /\ stdout = 0
    /\ stderr = 0
    /\ error_output = 0
    /\ tokens = <<>>
    /\ files = <<>> /\ token_limit = TOKEN_LIMIT /\ idx = 0
    /\ file_groups = <<>> /\ current_group = <<>> /\ current_tokens = 0
    /\ oversized_files = <<>>
    /\ DriverIdle
    /\ ParserIdle

StreamNext == Popen \/ ProcessWrite \/ ProcessExit \/ readline \/ return_code

StreamSpec == StreamInit /\ [][StreamNext]_vars

(***************************************************************************)
(* process_files and the four process_* functions (lines 869-1025).        *)
(* pc names the running loop, pos the element it is at.                    *)
(***************************************************************************)
DependencyAware == SCAN_LOGIC \in {"basic_dependency-cruiser", "standard_dependency-cruiser"}

\* where a for loop over n elements, at element p of it, goes next
ForNext(loop, n, p, after) == IF p < n THEN <<loop, p + 1>> ELSE after

ToSummary == <<"main_summary", 0>>

\* mutant: the dependencies found are added to the read-only files the
\* previous unit was given, not to the base list
DispatchUnit_KeepsEarlierDependencies(fs, next) ==
    IF DependencyAware
    THEN \E dep \in get_dependencies(fs) :
            LET base == IF last.kind = "none" THEN Range(read_only_files)
                        ELSE last.read_only_files
                all_read_only == base \cup dep.dependencies
            IN /\ dependencies' = [of |-> fs, oracle |-> dep.oracle,
                                   result |-> dep.dependencies,
                                   calls |-> dependencies.calls + 1]
               /\ execute_aider_command(fs, all_read_only,
                                        log_dependency_cruiser_results(log_file, dep),
                                        next[1], next[2])
    ELSE /\ execute_aider_command(fs, Range(read_only_files), log_file, next[1], next[2])
         /\ UNCHANGED dependencies

\* the body shared by the loops: lines 931, 954, 958 without dependencies,
\* lines 983-985, 1017-1019, 1023-1025 with them
DispatchUnit(fs, next) ==
    IF DependencyAware
    THEN \E dep \in get_dependencies(fs) :
            LET all_read_only == Range(read_only_files) \cup dep.dependencies
            IN /\ dependencies' = [of |-> fs, oracle |-> dep.oracle,
                                   result |-> dep.dependencies,
                                   calls |-> dependencies.calls + 1]
               /\ execute_aider_command(fs, all_read_only,
                                        log_dependency_cruiser_results(log_file, dep),
                                        next[1], next[2])
    ELSE /\ execute_aider_command(fs, Range(read_only_files), log_file, next[1], next[2])
         /\ UNCHANGED dependencies

loopFrame == <<tokens, packVars, confVars, files_to_process, read_only_files, log_content,
               parseVars, streamVars>>

\* lines 930-931
process_basic ==
    /\ pc = "process_basic"
    /\ DispatchUnit(<<files_to_process[pos]>>,
                    ForNext("process_basic", Len(files_to_process), pos, ToSummary))
    /\ UNCHANGED loopFrame

\* lines 982-985
process_basic_dependency_cruiser ==
    /\ pc = "process_basic_dependency_cruiser"
    /\ DispatchUnit(<<files_to_process[pos]>>,
                    ForNext("process_basic_dependency_cruiser", Len(files_to_process),
                            pos, ToSummary))
    /\ UNCHANGED loopFrame

\* mutant: the loop over the oversized files is entered before the loop over
\* the groups
SplitCall_OversizedFirst(loop) ==
    /\ pc = loop
    /\ LET r == split_files_by_token_limit(files_to_process, TOKEN_LIMIT)
           next == IF r[2] # <<>> THEN <<loop \o ".oversized", 1>>
                   ELSE IF r[1] # <<>> THEN <<loop \o ".groups", 1>>
                   ELSE ToSummary
       IN /\ file_groups' = r[1]
          /\ oversized_files' = r[2]
          /\ pc' = next[1]
          /\ pos' = next[2]
    /\ UNCHANGED <<tokens, files, token_limit, idx, current_group, current_tokens,
                   confVars, turnVars, files_to_process, read_only_files, log_content,
                   dependencies, worldVars, parseVars, streamVars>>

\* lines 949-951 and 1012-1014: the call of the packer
SplitCall(loop) ==
    /\ pc = loop
    /\ LET r == split_files_by_token_limit(files_to_process, TOKEN_LIMIT)
           next == IF r[1] # <<>> THEN <<loop \o ".groups", 1>>
                   ELSE IF r[2] # <<>> THEN <<loop \o ".oversized", 1>>
                   ELSE ToSummary
       IN /\ file_groups' = r[1]
          /\ oversized_files' = r[2]
          /\ pc' = next[1]
          /\ pos' = next[2]
    /\ UNCHANGED <<tokens, files, token_limit, idx, current_group, current_tokens,
                   confVars, turnVars, files_to_process, read_only_files, log_content,
                   dependencies, worldVars, parseVars, streamVars>>

\* lines 953-954 and 1016-1019: the loop over the groups
GroupLoop(loop) ==
    /\ pc = loop \o ".groups"
    /\ DispatchUnit(file_groups[pos],
                    ForNext(pc, Len(file_groups), pos,
                            IF oversized_files # <<>>
                            THEN <<loop \o ".oversized", 1>> ELSE ToSummary))
    /\ UNCHANGED loopFrame

\* lines 956-958 and 1021-1025: the loop over the oversized files
OversizedLoop(loop) ==
    /\ pc = loop \o ".oversized"
    /\ DispatchUnit(<<oversized_files[pos]>>,
                    ForNext(pc, Len(oversized_files), pos, ToSummary))
    /\ UNCHANGED loopFrame

process_standard ==
    \/ SplitCall("process_standard")
    \/ GroupLoop("process_standard")
    \/ OversizedLoop("process_standard")

process_standard_dependency_cruiser ==
    \/ SplitCall("process_standard_dependency_cruiser")
    \/ GroupLoop("process_standard_dependency_cruiser")
    \/ OversizedLoop("process_standard_dependency_cruiser")

\* lines 901-910: the function process_files calls, or none
ProcessFilesEntry(n) ==
    IF SCAN_LOGIC = "basic"
    THEN (IF n > 0 THEN <<"process_basic", 1>> ELSE ToSummary)
    ELSE IF SCAN_LOGIC = "standard"
    THEN <<"process_standard", 0>>
    ELSE IF SCAN_LOGIC = "basic_dependency-cruiser"
    THEN (IF n > 0 THEN <<"process_basic_dependency_cruiser", 1>> ELSE ToSummary)
    ELSE IF SCAN_LOGIC = "standard_dependency-cruiser"
    THEN <<"process_standard_dependency_cruiser", 0>>
    ELSE ToSummary      \* line 910: "Invalid SCAN_LOGIC" is logged

(***************************************************************************)
(* main (lines 1028-1089)                                                  *)
(***************************************************************************)
\* lines 1051-1062
Header ==
    [kind |-> "header", scan_logic |-> SCAN_LOGIC, llm |-> LLM, edit_format |-> EDIT_FORMAT]

\* lines 1070-1083
Summary ==
    [kind |-> "summary", total_files |-> Len(files_to_process),
     total_read_only |-> Len(read_only_files)]

\* line 1085: open(log_file_path, "w") and writelines: the file holds the
\* written lines and nothing else
WriteReport(old, content) == content

\* lines 1046-1067, up to the first loop of the chosen process_* function
main_begin ==
    /\ pc = "main"
    /\ log_content' = IF DRY_RUN THEN <<Header>> ELSE <<>>
    /\ \E disk \in SUBSET AllFiles :
         \E found \in get_files_to_process(disk) :
            /\ files_to_process' = found
            /\ pc' = ProcessFilesEntry(Len(found))[1]
            /\ pos' = ProcessFilesEntry(Len(found))[2]
    /\ read_only_files' = MANUALLY_ADDED_FILES
    /\ UNCHANGED <<tokens, packVars, confVars, turnVars, dependencies, worldVars, parseVars, streamVars>>

\* lines 1069-1086
main_summary ==
    /\ pc = "main_summary"
    /\ IF DRY_RUN
       THEN /\ log_content' = Append(log_content, Summary)
            /\ log_file' = WriteReport(log_file, log_content')
       ELSE UNCHANGED <<log_content, log_file>>
    /\ pc' = "done"
    /\ UNCHANGED <<tokens, packVars, confVars, turnVars, files_to_process,
                   read_only_files, pos, dependencies, invocations, last, runner_failed,
                   parseVars, streamVars>>

\* MANUALLY_ADDED_FILES (line 30): empty, or one file
ManualLists == {<<>>} \cup {<<f>> : f \in AllFiles}

Init ==
    /\ pc = "main"
    /\ tokens \in CostProfiles
    /\ SCAN_LOGIC \in {"basic", "standard", "basic_dependency-cruiser",
                       "standard_dependency-cruiser", "other"}
    /\ DRY_RUN \in BOOLEAN
    /\ LLM \in {"default", "random", "turn-based"}
    /\ EDIT_FORMAT \in {"diff", "turn-based"}
    /\ MANUALLY_ADDED_FILES \in ManualLists
    /\ MODEL_TURN = initialize_turns
    /\ EDIT_FORMAT_TURN = initialize_turns
    /\ files = <<>> /\ token_limit = TOKEN_LIMIT /\ idx = 0
    /\ file_groups = <<>> /\ current_group = <<>> /\ current_tokens = 0
    /\ oversized_files = <<>>
    /\ files_to_process = <<>> /\ read_only_files = <<>> /\ log_content = <<>>
    /\ pos = 0
    /\ dependencies = NoDependencies
    /\ invocations = <<>>
    /\ last = [kind |-> "none"]
    /\ runner_failed = FALSE
    /\ log_file = <<>>
    /\ ParserIdle
    /\ StreamIdle

Next ==
    \/ main_begin
    \/ process_basic
    \/ process_standard
    \/ process_basic_dependency_cruiser
    \/ process_standard_dependency_cruiser
    \/ main_summary

Spec == Init /\ [][Next]_vars

(***************************************************************************)
(* Properties of the run, checked under Spec                               *)
(***************************************************************************)
RunEnded == pc \in {"done", "aborted"}

FourPolicies == {"basic", "standard", "basic_dependency-cruiser", "standard_dependency-cruiser"}

Unbatched == SCAN_LOGIC \in {"basic", "basic_dependency-cruiser"}

\* a loop of a process_* function is at one of its elements: the next step
\* is a call of execute_aider_command for that unit
InUnitLoop ==
    pc \in {"process_basic", "process_basic_dependency_cruiser",
            "process_standard.groups", "process_standard.oversized",
            "process_standard_dependency_cruiser.groups",
            "process_standard_dependency_cruiser.oversized"}

\* the editable files of the units the policy is to emit, in order
UnitsOfPolicy ==
    IF Unbatched
    THEN [i \in 1..Len(files_to_process) |-> <<files_to_process[i]>>]
    ELSE file_groups \o [i \in 1..Len(oversized_files) |-> <<oversized_files[i]>>]

TimesEditable(f) ==
    Cardinality({i \in 1..Len(invocations) : f \in Range(invocations[i].files)})

CommandEntries(log) ==
    Cardinality({i \in 1..Len(log) : log[i].kind = "aider_command"})

\* C5: in every unit handed to the aider command no file is both an
\* editable file and a read-only file.
C5_MutableReadOnlyDisjoint ==
    last.kind # "none" => Range(last.files) \cap last.read_only_files = {}

\* C6: when the run ends under one of the four policies, every file to
\* process has been an editable file of exactly one unit, and the units are
\* one per file (unbatched) or one per group then one per oversized file.
C6_EveryFileDispatchedOnce ==
    (RunEnded /\ SCAN_LOGIC \in FourPolicies) =>
        /\ [i \in 1..Len(invocations) |-> invocations[i].files] = UnitsOfPolicy
        /\ \A f \in Range(files_to_process) : TimesEditable(f) = 1

\* C7: a failing aider command (non-zero exit, or executable missing) never
\* aborts the batch: the run is not aborted, and when it is done the command
\* was attempted for every unit.
C7_FailureDoesNotAbort ==
    runner_failed =>
        /\ pc # "aborted"
        /\ pc = "done" => /\ Len(invocations) = Len(UnitsOfPolicy)
                          /\ \A i \in 1..Len(invocations) : invocations[i].how = "run"

C7_Witness ==
    /\ pc = "done"
    /\ runner_failed
    /\ Len(invocations) >= 2
    /\ last.kind = "exit_zero"

\* C8: after a completed dry run the report holds the header, one entry for
\* every simulated invocation, and the summary.
C8_ReportComplete ==
    (pc = "done" /\ DRY_RUN) =>
        /\ Len(log_file) >= 2
        /\ log_file[1].kind = "header"
        /\ log_file[Len(log_file)].kind = "summary"
        /\ CommandEntries(log_file) = Len(invocations)

\* C9: in a dry run no aider process is started, and every unit a loop hands
\* to execute_aider_command adds exactly one entry to the report.
C9_DryRunLogsEachUnit ==
    [][(DRY_RUN /\ InUnitLoop) =>
          /\ CommandEntries(log_file') = CommandEntries(log_file) + 1
          /\ \A i \in 1..Len(invocations') : invocations'[i].how = "logged"]_vars

\* the editable files of the units handed out so far, in order
Dispatched == [i \in 1..Len(invocations) |-> invocations[i].files]

IsPrefix(s, t) == Len(s) <= Len(t) /\ \A i \in 1..Len(s) : s[i] = t[i]

PackerCalled == pc \notin {"main", "process_standard", "process_standard_dependency_cruiser"}

PositionIn(s, x) == CHOOSE i \in 1..Len(s) : s[i] = x

\* C12: under the two capacity-packed policies the units handed out are, at
\* every moment, the first units of: the packer's groups in the order
\* returned, then the packer's oversized files one by one in the order
\* returned; the loop over the oversized files runs only after every group
\* was handed out.
C12_GroupsThenOversized ==
    (SCAN_LOGIC \in FourPolicies /\ ~Unbatched /\ PackerCalled) =>
        /\ <<file_groups, oversized_files>> =
              split_files_by_token_limit(files_to_process, TOKEN_LIMIT)
        /\ IsPrefix(Dispatched, UnitsOfPolicy)
        /\ pc \in {"process_standard.oversized",
                   "process_standard_dependency_cruiser.oversized"} =>
              Len(invocations) >= Len(file_groups)

\* the run is done, and an oversized file that comes first in the file list
\* was handed out after the group of the files behind it
C12_Witness ==
    /\ pc = "done"
    /\ ~Unbatched
    /\ file_groups # <<>>
    /\ oversized_files # <<>>
    /\ PositionIn(files_to_process, oversized_files[1])
          < PositionIn(files_to_process, file_groups[Len(file_groups)][1])
    /\ Dispatched = UnitsOfPolicy

\* C13: every unit handed to the aider command carries every file of
\* MANUALLY_ADDED_FILES as read-only context: in the read-only list the
\* process_* function passes, and among the --read arguments of the command.
C13_ManualFilesAlwaysReadOnly ==
    last.kind # "none" =>
        /\ Range(MANUALLY_ADDED_FILES) \subseteq last.read_only_files
        /\ Range(MANUALLY_ADDED_FILES) \subseteq last.read

\* a group of two files with a dependency found for it, the manual file
\* itself not among the files to process
C13_Witness ==
    /\ last.kind # "none"
    /\ SCAN_LOGIC = "standard_dependency-cruiser"
    /\ MANUALLY_ADDED_FILES # <<>>
    /\ Range(MANUALLY_ADDED_FILES) \cap Range(files_to_process) = {}
    /\ Len(last.files) = 2
    /\ ~(dependencies.result \subseteq Range(MANUALLY_ADDED_FILES))
    /\ Range(MANUALLY_ADDED_FILES) \subseteq last.read

\* C14: the base list read_only_files stays the copy of MANUALLY_ADDED_FILES
\* main made.  Under a dependency-aware policy get_dependencies was called
\* once for each unit handed out, the latest call on the editable files of
\* the latest unit, and that unit's read-only files are the base list
\* together with what that call returned; under the other policies
\* get_dependencies is never called and the read-only files are the base list.
C14_ReadOnlyIsBasePlusOwnDependencies ==
    (SCAN_LOGIC \in FourPolicies /\ last.kind # "none") =>
        /\ read_only_files = MANUALLY_ADDED_FILES
        /\ IF DependencyAware
           THEN /\ dependencies.of = last.files
                /\ dependencies.calls = Len(invocations)
                /\ dependencies.result \in {d.dependencies : d \in get_dependencies(last.files)}
                /\ last.read_only_files = Range(read_only_files) \cup dependencies.result
           ELSE /\ dependencies = NoDependencies
                /\ last.read_only_files = Range(read_only_files)

\* a dry run in which a dependency reported for an earlier unit is not among
\* the read-only files of the latest unit, which are the base list
C14_Witness ==
    /\ DependencyAware
    /\ DRY_RUN
    /\ MANUALLY_ADDED_FILES # <<>>
    /\ dependencies.calls >= 2
    /\ last.read_only_files = Range(MANUALLY_ADDED_FILES)
    /\ \E i \in 1..Len(log_file) :
          /\ log_file[i].kind = "dependency_cruiser"
          /\ ~(log_file[i].sanitized \subseteq last.read_only_files)

OracleFailed == dependencies.oracle \in {"not_found", "exit_nonzero"}

\* C16: when npx is missing or dependency-cruiser exits non-zero,
\* get_dependencies returns nothing, the run is not aborted, and the unit it
\* was called for is handed to the aider command with the base list as its
\* read-only files.
C16_OracleFailureStillDispatches ==
    OracleFailed =>
        /\ dependencies.result = {}
        /\ pc # "aborted"
        /\ last.kind # "none"
        /\ last.files = dependencies.of
        /\ last.read_only_files = Range(read_only_files)

\* C18: with LLM = "turn-based" the choice of the model never fails, the
\* counter MODEL_TURN is the number of invocations made so far, and the
\* latest invocation, the k-th counting from 0, was given MODELS[k mod
\* len(MODELS)].
C18_TurnBasedRotation ==
    (LLM = "turn-based" /\ SCAN_LOGIC \in FourPolicies) =>
        /\ pc # "aborted"
        /\ MODEL_TURN.value = Len(invocations)
        /\ last.kind # "none" =>
              last.model = MODELS[((Len(invocations) - 1) % Len(MODELS)) + 1]

\* C19: no file of MANUALLY_ADDED_FILES is ever among the editable files of
\* a unit handed to the aider command.
C19_ManualFilesNeverEditable ==
    \A i \in 1..Len(invocations) :
        Range(invocations[i].files) \cap Range(MANUALLY_ADDED_FILES) = {}

\* the input positions of the last file of returned group k and of the
\* first file of the group after it
LastPositionOf(k) == PositionIn(files, file_groups[k][Len(file_groups[k])])
FirstPositionOf(k) == PositionIn(files, file_groups[k][1])

\* C21: greedy maximality.  Of two consecutive returned groups the second
\* starts after the first ends; when it starts at the very next input file,
\* the first group's cost plus that file's cost exceeds the limit; otherwise
\* every input file between them is over the limit.
C21_GreedyMaximality ==
    (Returned /\ ~SoleOversizedInput) =>
        \A k \in 1..(Len(file_groups) - 1) :
            LET a == LastPositionOf(k)
                b == FirstPositionOf(k + 1)
            IN /\ a < b
               /\ IF b = a + 1
                  THEN GroupCost(file_groups[k]) + FileTokens(files[b]) > token_limit
                  ELSE \A i \in (a + 1)..(b - 1) : FileTokens(files[i]) > token_limit

\* three groups: one closed because the next file would not fit, one closed
\* by an oversized file although the file after it would have fitted
C21_Witness ==
    /\ Returned
    /\ Len(file_groups) >= 3
    /\ \E k \in 1..(Len(file_groups) - 1) : FirstPositionOf(k + 1) = LastPositionOf(k) + 1
    /\ \E k \in 1..(Len(file_groups) - 1) :
          /\ FirstPositionOf(k + 1) > LastPositionOf(k) + 1
          /\ GroupCost(file_groups[k]) + FileTokens(file_groups[k + 1][1]) <= token_limit

\* the driver is in readline with nothing to read and the pipe still open
DriverWaitsOnStdout == pc = "readline" /\ stdout = 0 /\ ~process.exited

\* the process is in a write to standard error, which is full
ProcessWaitsOnStderr ==
    /\ ProcessRuns
    /\ process.script # <<>>
    /\ Head(process.script) = "stderr"
    /\ stderr = PipeCapacity

\* C22: for a process that writes finitely many lines and then exits, the
\* driver never waits on standard output while the process waits to write
\* standard error, and the run of lines 721-750 can only come to rest with
\* execute_aider_command returned.
C22_StreamingLoopReturns ==
    /\ ~(DriverWaitsOnStdout /\ ProcessWaitsOnStderr)
    /\ ~(ENABLED StreamNext) => pc = "stream_returned"

====
